---- MODULE Spec2Model ----
(***************************************************************************)
(* The quiz web service of src/main.py as a state machine.                 *)
(*                                                                         *)
(* The store is the four tables the handlers read and write (quiz,         *)
(* questions, users, quiz_results) with their id sequences.  Every request *)
(* runs in its own session (SessionLocal(), autocommit=False): rows a      *)
(* session has inserted or deleted stay in the session until db.commit()   *)
(* and are invisible to every other session (read committed).  Requests    *)
(* of different workers interleave between SQL statements, so a handler is *)
(* one action per statement (a statement followed at once by db.commit()   *)
(* is one action).                                                         *)
(***************************************************************************)
EXTENDS Integers, Sequences, FiniteSets, TLC

\* ------------------------------------------------------------- bounds
MaxQuizId == 1          \* quiz ids a POST /quizzes may draw from the sequence
MaxUserId == 1          \* user ids a registration may set out to insert
MaxResultId == 2        \* result ids a POST /quiz-results may set out to insert
MaxTokens == 1          \* bearer tokens the clients keep

\* The concurrent request handlers (workers).
Procs == {"w1", "w2"}

\* Question descriptors a client submits (QuestionBase): QB carries a
\* correct_answer_index outside its two choices.
QA == [question_text |-> "qa", choices |-> <<"x", "y">>, correct_answer_index |-> 1]
QB == [question_text |-> "qb", choices |-> <<"x", "y">>, correct_answer_index |-> 5]

\* The question lists of the POST /quizzes requests.
QuestionLists == {<<>>, <<QA>>, <<QA, QB>>, <<QB, QA>>}

\* ------------------------------------------------------------- state
VARIABLES
    quiz,           \* committed rows of table quiz
    questions,      \* committed rows of table questions
    quiz_seq,       \* next value of quiz.id's sequence
    question_seq,   \* next value of questions.id's sequence
    now,            \* the clock (days)
    pc,             \* per worker: the statement it is about to run
    req,            \* per worker: the request it serves (or served last)
    loc,            \* per worker: the handler's locals and its open session
    resp,           \* per worker: the response of the finished request
    submitted,      \* history: quiz id -> the questions its creation submitted
    deleted,        \* history: quiz ids a DELETE /quizzes/{id} removed
    users,          \* committed rows of table users
    quiz_results,   \* committed rows of table quiz_results
    user_seq,       \* next value of users.id's sequence
    result_seq,     \* next value of quiz_results.id's sequence
    wallet          \* the bearer tokens clients have received and kept

vars == <<quiz, questions, quiz_seq, question_seq, now, pc, req, loc, resp,
          submitted, deleted, users, quiz_results, user_seq, result_seq, wallet>>

acctVars == <<users, quiz_results, user_seq, result_seq, wallet>>

Emails == {"a@x", "b@x"}
Usernames == {"ann", "bob"}

\* Bodies of POST /quiz-results (QuizResultCreate), without the quiz_id.
ResultInputs ==
    { [score |-> 100, correct_answers |-> 2, total_questions |-> 2],
      [score |-> 50, correct_answers |-> 1, total_questions |-> 2] }

SECRET_KEY == "SECRET_KEY"
ACCESS_TOKEN_EXPIRE_DAYS == 365

\* last_login IS NULL
NoLogin == -1

\* A payload without "sub".
NoSub == "<none>"

NoToken == [kind |-> "none", sub |-> NoSub, exp |-> 0, sig |-> ""]

\* Bearer tokens the service never issued: not a JWT, a JWT signed with another
\* key, and a JWT without subject.
OtherTokens ==
    { [kind |-> "malformed", sub |-> NoSub, exp |-> 0, sig |-> ""],
      [kind |-> "jwt", sub |-> "a@x", exp |-> 2 * ACCESS_TOKEN_EXPIRE_DAYS, sig |-> "OTHER_KEY"],
      [kind |-> "jwt", sub |-> NoSub, exp |-> 2 * ACCESS_TOKEN_EXPIRE_DAYS, sig |-> SECRET_KEY] }

NoQuiz == [id |-> 0, category |-> "", created_at |-> 0]

NoUser == [id |-> 0, email |-> "", username |-> "", created_at |-> 0, last_login |-> NoLogin]

NoResult == [id |-> 0, user_id |-> 0, quiz_id |-> 0, score |-> 0, correct_answers |-> 0,
             total_questions |-> 0, created_at |-> 0]

NoReq == [op |-> "none", quiz_id |-> 0, category |-> "", questions |-> <<>>,
          email |-> "", username |-> "", token |-> NoToken, result |-> NoResult]

\* A handler's locals. quiz/txq are the rows its session has inserted and not
\* yet committed; qid, failed, inflight, after_delete, matched and the fields from wrote on are history:
\* wrote - the request has committed a change; at - the day of its token check
\* or login update; the rest - what the store held when a statement ran.
NoLoc == [qid |-> 0, quiz |-> NoQuiz, questions |-> <<>>, txq |-> {},
          todo |-> <<>>, quizzes |-> <<>>, failed |-> FALSE, inflight |-> FALSE,
          after_delete |-> FALSE, matched |-> FALSE,
          user |-> NoUser, token |-> NoToken, delres |-> {},
          wrote |-> FALSE, at |-> 0, known |-> FALSE, email_taken |-> FALSE,
          username_taken |-> FALSE, quiz_found |-> FALSE, had_result |-> FALSE,
          had_at_auth |-> FALSE]

NoResp == [status |-> 0, quiz |-> NoQuiz, questions |-> <<>>, quizzes |-> <<>>,
           user |-> NoUser, token |-> NoToken, result |-> NoResult, results |-> <<>>]

\* json.dumps(question.choices) on the way in; the JSONB column hands the
\* parsed array back on the way out.
JsonDumps(choices) == [json |-> choices]

\* All orders in which a SELECT without ORDER BY may return the rows S.
RowOrders(S) ==
    {s \in [1..Cardinality(S) -> S] : \A i, j \in 1..Cardinality(S) : i # j => s[i] # s[j]}

\* SELECT * FROM quiz ORDER BY created_at DESC: rows with equal created_at
\* come in any order.
ByCreatedDesc(S) ==
    {s \in RowOrders(S) : \A i, j \in 1..Len(s) : i < j => s[i].created_at >= s[j].created_at}

\* The question dict the read handlers build from a row of questions.
QuestionData(row) ==
    [id |-> row.id, quiz_id |-> row.quiz_id, question_text |-> row.question_text,
     choices |-> row.choices.json, correct_answer_index |-> row.correct_answer_index]

\* Variant of InsertVisible: a session in autocommit mode publishes each row
\* as it is inserted.
InsertVisibleAutocommit(committed, row) == committed \cup {row}

\* What other sessions see of a row a session has inserted and not committed:
\* nothing (sessionmaker(autocommit=False)).
InsertVisible(committed, row) == committed

\* Variant of Rollback: the except branch commits what was inserted so far.
RollbackKeeps(committed, pending) == committed \cup pending

\* db.rollback(): the session's pending rows are discarded.
Rollback(committed, pending) == committed

\* db.commit(): the session's pending rows become visible together.
Commit(committed, pending) == committed \cup pending

\* Variant of CascadeQuestions: the questions stay when their quiz is deleted.
CascadeNone(rows, quiz_id) == rows

\* DELETE FROM quiz WHERE id = :quiz_id; the questions of the quiz go with it
\* ("cascade will handle questions").
CascadeQuestions(rows, quiz_id) == {r \in rows : r.quiz_id # quiz_id}

Idle(p) == pc[p] = "idle"

\* A worker takes request r: the handler opens its session (SessionLocal()).
Start(p, r) ==
    /\ Idle(p)
    /\ req' = [req EXCEPT ![p] = r]

\* The handler returns or raises: the response is set and the session closed.
Finish(p, r) ==
    /\ resp' = [resp EXCEPT ![p] = r]
    /\ pc' = [pc EXCEPT ![p] = "done"]

\* The response has been sent; the worker takes the next request.
Return(p) ==
    /\ pc[p] = "done"
    /\ pc' = [pc EXCEPT ![p] = "idle"]
    /\ req' = [req EXCEPT ![p] = NoReq]
    /\ loc' = [loc EXCEPT ![p] = NoLoc]
    /\ resp' = [resp EXCEPT ![p] = NoResp]
    /\ UNCHANGED <<quiz, questions, quiz_seq, question_seq, now, submitted, deleted>>
    /\ UNCHANGED acctVars

Init ==
    /\ quiz = {}
    /\ questions = {}
    /\ quiz_seq = 1
    /\ question_seq = 1
    /\ now = 0
    /\ pc = [p \in Procs |-> "idle"]
    /\ req = [p \in Procs |-> NoReq]
    /\ loc = [p \in Procs |-> NoLoc]
    /\ resp = [p \in Procs |-> NoResp]
    /\ submitted = [i \in {} |-> <<>>]
    /\ deleted = {}
    /\ users = {}
    /\ quiz_results = {}
    /\ user_seq = 1
    /\ result_seq = 1
    /\ wallet = {}

\* ---------------------------------------------------- POST /quizzes
\* The except branch of the transaction: db.rollback(), then HTTP 500.
cq_fail(p, pendingQuiz, pendingQuestions) ==
    /\ quiz' = Rollback(quiz, pendingQuiz)
    /\ questions' = Rollback(questions, pendingQuestions)
    /\ Finish(p, [NoResp EXCEPT !.status = 500])

\* create_quiz up to and including INSERT INTO quiz.
create_quiz(p, category, qs, fail) ==
    /\ quiz_seq <= MaxQuizId
    /\ Start(p, [NoReq EXCEPT !.op = "create_quiz", !.category = category, !.questions = qs])
    /\ quiz_seq' = quiz_seq + 1
    /\ submitted' = (quiz_seq :> qs) @@ submitted
    /\ LET row == [id |-> quiz_seq, category |-> category, created_at |-> now]
       IN  IF fail
           THEN /\ loc' = [loc EXCEPT ![p].qid = quiz_seq, ![p].failed = TRUE]
                /\ cq_fail(p, {}, {})
           ELSE /\ loc' = [loc EXCEPT ![p].qid = quiz_seq, ![p].quiz = row]
                /\ quiz' = InsertVisible(quiz, row)
                /\ questions' = questions
                /\ pc' = [pc EXCEPT ![p] = IF qs = <<>>
                                           THEN "cq_commit" ELSE "cq_insert_question"]
                /\ resp' = resp
    /\ UNCHANGED acctVars
    /\ UNCHANGED <<question_seq, now, deleted>>

cq_insert_question(p, fail) ==
    /\ pc[p] = "cq_insert_question"
    /\ question_seq' = question_seq + 1
    /\ LET question == req[p].questions[Len(loc[p].questions) + 1]
           row == [id |-> question_seq, quiz_id |-> loc[p].quiz.id,
                   question_text |-> question.question_text,
                   choices |-> JsonDumps(question.choices),
                   correct_answer_index |-> question.correct_answer_index]
           question_data == [QuestionData(row) EXCEPT !.choices = question.choices]
       IN  IF fail
           THEN /\ loc' = [loc EXCEPT ![p].failed = TRUE, ![p].txq = {}]
                /\ cq_fail(p, {loc[p].quiz}, loc[p].txq)
           ELSE /\ loc' = [loc EXCEPT ![p].txq = @ \cup {row},
                                      ![p].questions = Append(@, question_data)]
                /\ questions' = InsertVisible(questions, row)
                /\ quiz' = quiz
                /\ pc' = [pc EXCEPT ![p] =
                            IF Len(loc[p].questions) + 1 = Len(req[p].questions)
                            THEN "cq_commit" ELSE "cq_insert_question"]
                /\ resp' = resp
    /\ UNCHANGED acctVars
    /\ UNCHANGED <<quiz_seq, now, req, submitted, deleted>>

cq_commit(p, fail) ==
    /\ pc[p] = "cq_commit"
    /\ IF fail
       THEN /\ loc' = [loc EXCEPT ![p].failed = TRUE, ![p].txq = {}]
            /\ cq_fail(p, {loc[p].quiz}, loc[p].txq)
       ELSE /\ quiz' = Commit(quiz, {loc[p].quiz})
            /\ questions' = Commit(questions, loc[p].txq)
            /\ loc' = [loc EXCEPT ![p].txq = {}]
            /\ Finish(p, [NoResp EXCEPT !.status = 200, !.quiz = loc[p].quiz,
                                        !.questions = loc[p].questions])
    /\ UNCHANGED acctVars
    /\ UNCHANGED <<quiz_seq, question_seq, now, req, submitted, deleted>>

\* ------------------------------------------------- GET /quizzes/{id}
\* Creations of quiz_id that have inserted rows and not yet committed.
InFlight(quiz_id) ==
    \E c \in Procs : pc[c] \in {"cq_insert_question", "cq_commit"} /\ loc[c].qid = quiz_id

\* get_quiz up to and including SELECT * FROM quiz WHERE id = :quiz_id.
get_quiz(p, quiz_id) ==
    /\ Start(p, [NoReq EXCEPT !.op = "get_quiz", !.quiz_id = quiz_id])
    /\ LET rows == {r \in quiz : r.id = quiz_id}
       IN  IF rows = {}
           THEN /\ loc' = [loc EXCEPT ![p].inflight = InFlight(quiz_id),
                                      ![p].after_delete = quiz_id \in deleted]
                /\ Finish(p, [NoResp EXCEPT !.status = 404])
           ELSE /\ \E quiz_row \in rows :
                      loc' = [loc EXCEPT ![p].quiz = quiz_row,
                                         ![p].inflight = InFlight(quiz_id),
                                         ![p].after_delete = quiz_id \in deleted]
                /\ pc' = [pc EXCEPT ![p] = "gq_select_questions"]
                /\ resp' = resp
    /\ UNCHANGED acctVars
    /\ UNCHANGED <<quiz, questions, quiz_seq, question_seq, now, submitted, deleted>>

gq_select_questions(p) ==
    /\ pc[p] = "gq_select_questions"
    /\ \E rows \in RowOrders({r \in questions : r.quiz_id = req[p].quiz_id}) :
          Finish(p, [NoResp EXCEPT !.status = 200, !.quiz = loc[p].quiz,
                                   !.questions = [i \in 1..Len(rows) |-> QuestionData(rows[i])]])
    /\ UNCHANGED acctVars
    /\ UNCHANGED <<quiz, questions, quiz_seq, question_seq, now, req, loc, submitted, deleted>>

\* GET /quizzes/random-by-category: the route /quizzes/{quiz_id} is registered
\* first and matches the path; "random-by-category" is no int, so the request
\* is answered 422 and no handler runs.
get_quiz_not_an_int(p) ==
    /\ Start(p, [NoReq EXCEPT !.op = "get_random_by_category"])
    /\ Finish(p, [NoResp EXCEPT !.status = 422])
    /\ UNCHANGED acctVars
    /\ UNCHANGED <<quiz, questions, quiz_seq, question_seq, now, loc, submitted, deleted>>

\* ------------------------------------------------------ GET /quizzes
\* get_all_quizzes up to and including SELECT * FROM quiz ORDER BY created_at DESC.
get_all_quizzes(p) ==
    /\ Start(p, [NoReq EXCEPT !.op = "get_all_quizzes"])
    /\ \E rows \in ByCreatedDesc(quiz) :
          IF rows = <<>>
          THEN /\ Finish(p, [NoResp EXCEPT !.status = 200])
               /\ loc' = loc
          ELSE /\ loc' = [loc EXCEPT ![p].todo = rows]
               /\ pc' = [pc EXCEPT ![p] = "ga_select_questions"]
               /\ resp' = resp
    /\ UNCHANGED acctVars
    /\ UNCHANGED <<quiz, questions, quiz_seq, question_seq, now, submitted, deleted>>

ga_select_questions(p) ==
    /\ pc[p] = "ga_select_questions"
    /\ LET quiz_row == Head(loc[p].todo)
       IN  \E rows \in RowOrders({r \in questions : r.quiz_id = quiz_row.id}) :
             LET entry == [quiz |-> quiz_row,
                           questions |-> [i \in 1..Len(rows) |-> QuestionData(rows[i])]]
                 quizzes == Append(loc[p].quizzes, entry)
             IN  IF Tail(loc[p].todo) = <<>>
                 THEN /\ loc' = [loc EXCEPT ![p].todo = <<>>, ![p].quizzes = <<>>]
                      /\ Finish(p, [NoResp EXCEPT !.status = 200, !.quizzes = quizzes])
                 ELSE /\ loc' = [loc EXCEPT ![p].todo = Tail(@), ![p].quizzes = quizzes]
                      /\ UNCHANGED <<pc, resp>>
    /\ UNCHANGED acctVars
    /\ UNCHANGED <<quiz, questions, quiz_seq, question_seq, now, req, submitted, deleted>>

\* ---------------------------------------------- DELETE /quizzes/{id}
delete_quiz(p, quiz_id) ==
    /\ Start(p, [NoReq EXCEPT !.op = "delete_quiz", !.quiz_id = quiz_id])
    /\ LET matched == {r \in quiz : r.id = quiz_id}
       IN  /\ quiz' = quiz \ matched
           /\ questions' = IF matched = {} THEN questions
                           ELSE CascadeQuestions(questions, quiz_id)
           /\ deleted' = IF matched = {} THEN deleted ELSE deleted \cup {quiz_id}
           /\ Finish(p, [NoResp EXCEPT !.status = IF Cardinality(matched) = 0 THEN 404 ELSE 200])
           /\ loc' = [loc EXCEPT ![p].matched = matched # {}]
    /\ UNCHANGED acctVars
    /\ UNCHANGED <<quiz_seq, question_seq, now, submitted>>


\* =========================================================== accounts
\* Variant of create_access_token: the token expires the moment it is issued.
create_access_token_no_delta(email, expires_delta) ==
    [kind |-> "jwt", sub |-> email, exp |-> now, sig |-> SECRET_KEY]

\* create_access_token(data={"sub": email}, expires_delta): the signed JWT.
create_access_token(email, expires_delta) ==
    [kind |-> "jwt", sub |-> email, exp |-> now + expires_delta, sig |-> SECRET_KEY]

\* Variant of jwt_decode: the expiry is not verified.
jwt_decode_no_exp(token, t) ==
    IF token.kind # "jwt" \/ token.sig # SECRET_KEY
    THEN [ok |-> FALSE, sub |-> NoSub]
    ELSE [ok |-> TRUE, sub |-> token.sub]

\* jwt.decode(token, SECRET_KEY, algorithms=[ALGORITHM]) on day t: the payload,
\* or JWTError for a token that is no JWT, is signed with another key or has
\* expired.
jwt_decode(token, t) ==
    IF token.kind # "jwt" \/ token.sig # SECRET_KEY \/ token.exp < t
    THEN [ok |-> FALSE, sub |-> NoSub]
    ELSE [ok |-> TRUE, sub |-> token.sub]

\* SELECT * FROM users WHERE email = :email
UserByEmail(email) == {u \in users : u.email = email}

\* Variant of CurrentUsers: a token resolves only to an account that existed
\* when the token was issued.
CurrentUsersIssuedTo(token) ==
    LET payload == jwt_decode(token, now)
    IN  IF payload.ok /\ payload.sub # NoSub
        THEN {u \in UserByEmail(payload.sub) :
                 u.created_at <= token.exp - ACCESS_TOKEN_EXPIRE_DAYS}
        ELSE {}

\* get_current_user: the user rows it may return for a token; none is 401.
CurrentUsers(token) ==
    LET payload == jwt_decode(token, now)
    IN  IF payload.ok /\ payload.sub # NoSub THEN UserByEmail(payload.sub) ELSE {}

\* The tokens a client can send.
TokenInputs == wallet \cup OtherTokens

\* A client keeps the token of a response if it has room for it.
Keep(token) == IF Cardinality(wallet) < MaxTokens THEN wallet \cup {token} ELSE wallet

\* raise credentials_exception
Unauthorized(p, token) ==
    /\ loc' = [loc EXCEPT ![p].at = now, ![p].known = UserByEmail(token.sub) # {}]
    /\ Finish(p, [NoResp EXCEPT !.status = 401])

\* get_current_user returned user: the handler body runs next.
Authenticated(p, token, user, quiz_id, next) ==
    /\ loc' = [loc EXCEPT ![p].at = now, ![p].known = UserByEmail(token.sub) # {},
                          ![p].user = user,
                          ![p].had_at_auth = \E r \in quiz_results :
                               r.user_id = user.id /\ r.quiz_id = quiz_id]
    /\ pc' = [pc EXCEPT ![p] = next]
    /\ resp' = resp

\* --------------------------------------------------------- POST /users
\* Variant of ExistingUser: the check looks at the email alone.
ExistingUserByEmailOnly(rows, email, username) == {u \in rows : u.email = email}

\* SELECT * FROM users WHERE email = :email OR username = :username
ExistingUser(rows, email, username) ==
    {u \in rows : u.email = email \/ u.username = username}

\* response_model=UserResponse keeps the fields of UserResponse: the
\* access_token and token_type of the returned dict are not in the response.
UserResponse(user, token) == [NoResp EXCEPT !.status = 200, !.user = user]

\* create_user up to and including the existence check.
create_user(p, email, username) ==
    /\ Start(p, [NoReq EXCEPT !.op = "create_user", !.email = email, !.username = username])
    /\ loc' = [loc EXCEPT ![p].email_taken = \E u \in users : u.email = email,
                          ![p].username_taken = \E u \in users : u.username = username]
    /\ IF ExistingUser(users, email, username) # {}
       THEN Finish(p, [NoResp EXCEPT !.status = 400])
       ELSE pc' = [pc EXCEPT ![p] = "cu_insert"] /\ resp' = resp
    /\ UNCHANGED <<quiz, questions, quiz_seq, question_seq, now, submitted, deleted>>
    /\ UNCHANGED acctVars

\* Variant of InsertedUser: the registration stamps last_login.
InsertedUserLoggedIn(id, email, username, t) ==
    [id |-> id, email |-> email, username |-> username, created_at |-> t, last_login |-> t]

\* INSERT INTO users (email, username) VALUES (:email, :username) RETURNING ...:
\* the row gets its id and created_at from the defaults and no last_login.
InsertedUser(id, email, username, t) ==
    [id |-> id, email |-> email, username |-> username, created_at |-> t,
     last_login |-> NoLogin]

\* INSERT INTO users ...; db.commit(); the token; the response.
cu_insert(p) ==
    /\ pc[p] = "cu_insert"
    /\ LET new_user == InsertedUser(user_seq, req[p].email, req[p].username, now)
           access_token == create_access_token(new_user.email, ACCESS_TOKEN_EXPIRE_DAYS)
       IN  /\ users' = users \cup {new_user}
           /\ user_seq' = user_seq + 1
           /\ loc' = [loc EXCEPT ![p].user = new_user, ![p].token = access_token,
                                 ![p].wrote = TRUE, ![p].at = now]
           /\ Finish(p, UserResponse(new_user, access_token))
    /\ UNCHANGED <<quiz, questions, quiz_seq, question_seq, now, req, submitted, deleted>>
    /\ UNCHANGED <<quiz_results, result_seq, wallet>>

\* --------------------------------------------------------- POST /token
\* Variant of UpdateLastLogin: the login leaves last_login as it is.
UpdateLastLoginNone(rows, user_id, t) == rows

\* UPDATE users SET last_login = CURRENT_TIMESTAMP WHERE id = :user_id
UpdateLastLogin(rows, user_id, t) ==
    {IF u.id = user_id THEN [u EXCEPT !.last_login = t] ELSE u : u \in rows}

\* login_for_access_token up to and including the lookup of the email.
login_for_access_token(p, email) ==
    /\ Start(p, [NoReq EXCEPT !.op = "login", !.email = email])
    /\ IF UserByEmail(email) = {}
       THEN /\ loc' = [loc EXCEPT ![p].known = \E u \in users : u.email = email]
            /\ Finish(p, [NoResp EXCEPT !.status = 401])
       ELSE /\ \E user \in UserByEmail(email) :
                 loc' = [loc EXCEPT ![p].user = user,
                                    ![p].known = \E u \in users : u.email = email]
            /\ pc' = [pc EXCEPT ![p] = "lg_update"]
            /\ resp' = resp
    /\ UNCHANGED <<quiz, questions, quiz_seq, question_seq, now, submitted, deleted>>
    /\ UNCHANGED acctVars

\* The UPDATE of last_login; db.commit(); the token.
lg_update(p) ==
    /\ pc[p] = "lg_update"
    /\ LET access_token == create_access_token(loc[p].user.email, ACCESS_TOKEN_EXPIRE_DAYS)
       IN  /\ users' = UpdateLastLogin(users, loc[p].user.id, now)
           /\ wallet' = Keep(access_token)
           /\ loc' = [loc EXCEPT ![p].token = access_token, ![p].wrote = TRUE, ![p].at = now]
           /\ Finish(p, [NoResp EXCEPT !.status = 200, !.token = access_token])
    /\ UNCHANGED <<quiz, questions, quiz_seq, question_seq, now, req, submitted, deleted>>
    /\ UNCHANGED <<quiz_results, user_seq, result_seq>>

\* -------------------------------------------------------- GET /users/me
read_users_me(p, token) ==
    /\ Start(p, [NoReq EXCEPT !.op = "read_users_me", !.token = token])
    /\ IF CurrentUsers(token) = {}
       THEN Unauthorized(p, token)
       ELSE \E current_user \in CurrentUsers(token) :
              /\ loc' = [loc EXCEPT ![p].at = now, ![p].known = TRUE, ![p].user = current_user]
              /\ Finish(p, [NoResp EXCEPT !.status = 200, !.user = current_user])
    /\ UNCHANGED <<quiz, questions, quiz_seq, question_seq, now, submitted, deleted>>
    /\ UNCHANGED acctVars

\* ----------------------------------------------------- DELETE /users/me
delete_user(p, token) ==
    /\ Start(p, [NoReq EXCEPT !.op = "delete_user", !.token = token])
    /\ IF CurrentUsers(token) = {}
       THEN Unauthorized(p, token)
       ELSE \E current_user \in CurrentUsers(token) :
              Authenticated(p, token, current_user, 0, "du_delete_results")
    /\ UNCHANGED <<quiz, questions, quiz_seq, question_seq, now, submitted, deleted>>
    /\ UNCHANGED acctVars

\* DELETE FROM quiz_results WHERE user_id = :user_id (pending in the session)
du_delete_results(p) ==
    /\ pc[p] = "du_delete_results"
    /\ loc' = [loc EXCEPT ![p].delres = {r \in quiz_results : r.user_id = loc[p].user.id}]
    /\ pc' = [pc EXCEPT ![p] = "du_delete_user"]
    /\ UNCHANGED <<quiz, questions, quiz_seq, question_seq, now, req, resp, submitted, deleted>>
    /\ UNCHANGED acctVars

\* Variant of ReferencingResults: the user row can go while results reference it.
ReferencingResultsNone(rows, user_id) == {}

\* The foreign key of quiz_results.user_id ("due to foreign key constraint"):
\* the result rows that still reference user_id.
ReferencingResults(rows, user_id) == {r \in rows : r.user_id = user_id}

\* DELETE FROM users WHERE id = :user_id; db.commit(). A result row of the
\* user that another session committed meanwhile makes the DELETE fail: the
\* session is closed without commit and the answer is 500. After the commit
\* delres stays as the record of the result rows the request deleted.
du_delete_user(p) ==
    /\ pc[p] = "du_delete_user"
    /\ LET matched == {u \in users : u.id = loc[p].user.id}
           left == quiz_results \ loc[p].delres
       IN  IF matched # {} /\ ReferencingResults(left, loc[p].user.id) # {}
           THEN /\ loc' = [loc EXCEPT ![p].delres = {}]
                /\ Finish(p, [NoResp EXCEPT !.status = 500])
                /\ UNCHANGED <<users, quiz_results>>
           ELSE /\ quiz_results' = left
                /\ users' = users \ matched
                /\ loc' = [loc EXCEPT ![p].matched = matched # {},
                                      ![p].wrote = TRUE]
                /\ Finish(p, [NoResp EXCEPT !.status =
                                IF Cardinality(matched) = 0 THEN 404 ELSE 200])
    /\ UNCHANGED <<quiz, questions, quiz_seq, question_seq, now, req, submitted, deleted>>
    /\ UNCHANGED <<user_seq, result_seq, wallet>>

\* --------------------------------------------------- POST /quiz-results
\* Variant of ExistingResult: the duplicate check finds nothing.
ExistingResultSkipped(rows, user_id, quiz_id) == {}

\* SELECT id FROM quiz_results WHERE user_id = :user_id AND quiz_id = :quiz_id
ExistingResult(rows, user_id, quiz_id) ==
    {r \in rows : r.user_id = user_id /\ r.quiz_id = quiz_id}

save_quiz_result(p, token, quiz_id, result) ==
    /\ result_seq <= MaxResultId
    /\ Start(p, [NoReq EXCEPT !.op = "save_quiz_result", !.token = token,
                              !.quiz_id = quiz_id,
                              !.result = [NoResult EXCEPT !.quiz_id = quiz_id,
                                            !.score = result.score,
                                            !.correct_answers = result.correct_answers,
                                            !.total_questions = result.total_questions]])
    /\ IF CurrentUsers(token) = {}
       THEN Unauthorized(p, token)
       ELSE \E current_user \in CurrentUsers(token) :
              Authenticated(p, token, current_user, quiz_id, "sr_select_quiz")
    /\ UNCHANGED <<quiz, questions, quiz_seq, question_seq, now, submitted, deleted>>
    /\ UNCHANGED acctVars

\* SELECT id FROM quiz WHERE id = :quiz_id
sr_select_quiz(p) ==
    /\ pc[p] = "sr_select_quiz"
    /\ LET found == \E r \in quiz : r.id = req[p].quiz_id
       IN  /\ loc' = [loc EXCEPT ![p].quiz_found = found]
           /\ IF found
              THEN pc' = [pc EXCEPT ![p] = "sr_select_existing"] /\ resp' = resp
              ELSE Finish(p, [NoResp EXCEPT !.status = 404])
    /\ UNCHANGED <<quiz, questions, quiz_seq, question_seq, now, req, submitted, deleted>>
    /\ UNCHANGED acctVars

sr_select_existing(p) ==
    /\ pc[p] = "sr_select_existing"
    /\ loc' = [loc EXCEPT ![p].had_result = \E r \in quiz_results :
                              r.user_id = loc[p].user.id /\ r.quiz_id = req[p].quiz_id]
    /\ IF ExistingResult(quiz_results, loc[p].user.id, req[p].quiz_id) # {}
       THEN Finish(p, [NoResp EXCEPT !.status = 400])
       ELSE pc' = [pc EXCEPT ![p] = "sr_insert"] /\ resp' = resp
    /\ UNCHANGED <<quiz, questions, quiz_seq, question_seq, now, req, submitted, deleted>>
    /\ UNCHANGED acctVars

\* INSERT INTO quiz_results ...; db.commit(). The insert fails (500) when the
\* user row it references is gone.
sr_insert(p) ==
    /\ pc[p] = "sr_insert"
    /\ result_seq' = result_seq + 1
    /\ LET new_result == [req[p].result EXCEPT !.id = result_seq,
                                               !.user_id = loc[p].user.id,
                                               !.created_at = now]
       IN  IF \E u \in users : u.id = loc[p].user.id
           THEN /\ quiz_results' = quiz_results \cup {new_result}
                /\ loc' = [loc EXCEPT ![p].wrote = TRUE]
                /\ Finish(p, [NoResp EXCEPT !.status = 200, !.result = new_result])
           ELSE /\ quiz_results' = quiz_results
                /\ loc' = loc
                /\ Finish(p, [NoResp EXCEPT !.status = 500])
    /\ UNCHANGED <<quiz, questions, quiz_seq, question_seq, now, req, submitted, deleted>>
    /\ UNCHANGED <<users, user_seq, wallet>>

\* ---------------------------------------------------- GET /quiz-results
get_user_quiz_results(p, token) ==
    /\ Start(p, [NoReq EXCEPT !.op = "get_user_quiz_results", !.token = token])
    /\ IF CurrentUsers(token) = {}
       THEN Unauthorized(p, token)
       ELSE \E current_user \in CurrentUsers(token) :
              Authenticated(p, token, current_user, 0, "gr_select")
    /\ UNCHANGED <<quiz, questions, quiz_seq, question_seq, now, submitted, deleted>>
    /\ UNCHANGED acctVars

\* SELECT ... FROM quiz_results WHERE user_id = :user_id ORDER BY created_at DESC
gr_select(p) ==
    /\ pc[p] = "gr_select"
    /\ \E rows \in ByCreatedDesc({r \in quiz_results : r.user_id = loc[p].user.id}) :
          Finish(p, [NoResp EXCEPT !.status = 200, !.results = rows])
    /\ UNCHANGED <<quiz, questions, quiz_seq, question_seq, now, req, loc, submitted, deleted>>
    /\ UNCHANGED acctVars

\* ----------------------------------------------------------- the clock
Tick(day) ==
    /\ day > now
    /\ now' = day
    /\ UNCHANGED <<quiz, questions, quiz_seq, question_seq, pc, req, loc, resp,
                   submitted, deleted>>
    /\ UNCHANGED acctVars

\* ------------------------------------------------------ specification
QuizIds == 1..MaxQuizId

Next ==
    \E p \in Procs :
        \/ \E c \in {"veg"}, qs \in QuestionLists, fail \in BOOLEAN :
              create_quiz(p, c, qs, fail)
        \/ \E fail \in BOOLEAN : cq_insert_question(p, fail)
        \/ \E fail \in BOOLEAN : cq_commit(p, fail)
        \/ \E i \in QuizIds : get_quiz(p, i)
        \/ gq_select_questions(p)
        \/ get_quiz_not_an_int(p)
        \/ get_all_quizzes(p)
        \/ ga_select_questions(p)
        \/ \E i \in QuizIds : delete_quiz(p, i)
        \/ Return(p)

Spec == Init /\ [][Next]_vars

\* The registrations a specification lets in: those that draw an id up to
\* limit from the sequence, and those the existence check refuses.
MayRegister(limit, email, username) ==
    user_seq <= limit \/ \E u \in users : u.email = email \/ u.username = username

\* Registration, login and the operations on the caller's own account.
NextUsers ==
    \/ \E p \in Procs :
        \/ \E e \in Emails, u \in Usernames :
              MayRegister(MaxUserId, e, u) /\ create_user(p, e, u)
        \/ cu_insert(p)
        \/ \E e \in Emails : login_for_access_token(p, e)
        \/ lg_update(p)
        \/ \E t \in TokenInputs : read_users_me(p, t)
        \/ \E t \in TokenInputs : delete_user(p, t)
        \/ du_delete_results(p)
        \/ du_delete_user(p)
        \/ Return(p)

SpecUsers == Init /\ [][NextUsers]_vars

\* The identity-gated operations and the deletion of the quiz, from a store
\* with one quiz (without questions) and one registered user who logged in on
\* day 0 and kept the token.
InitResults ==
    /\ quiz = {[id |-> 1, category |-> "veg", created_at |-> 0]}
    /\ questions = {}
    /\ quiz_seq = 2
    /\ question_seq = 1
    /\ now = 0
    /\ pc = [p \in Procs |-> "idle"]
    /\ req = [p \in Procs |-> NoReq]
    /\ loc = [p \in Procs |-> NoLoc]
    /\ resp = [p \in Procs |-> NoResp]
    /\ submitted = (1 :> <<>>)
    /\ deleted = {}
    /\ users = {[id |-> 1, email |-> "a@x", username |-> "ann", created_at |-> 0, last_login |-> 0]}
    /\ quiz_results = {}
    /\ user_seq = 2
    /\ result_seq = 1
    /\ wallet = {[kind |-> "jwt", sub |-> "a@x", exp |-> ACCESS_TOKEN_EXPIRE_DAYS, sig |-> SECRET_KEY]}

NextResults ==
    \/ \E p \in Procs :
        \/ \E i \in {1} : delete_quiz(p, i)
        \/ \E t \in TokenInputs : read_users_me(p, t)
        \/ \E t \in TokenInputs : delete_user(p, t)
        \/ du_delete_results(p)
        \/ du_delete_user(p)
        \/ \E t \in TokenInputs, i \in {1}, r \in ResultInputs :
              save_quiz_result(p, t, i, r)
        \/ sr_select_quiz(p)
        \/ sr_select_existing(p)
        \/ sr_insert(p)
        \/ \E t \in TokenInputs : get_user_quiz_results(p, t)
        \/ gr_select(p)
        \/ Return(p)
    \/ \E day \in {366} : Tick(day)

SpecResults == InitResults /\ [][NextResults]_vars

\* The days the clock of SpecTokens can be set to: a token issued on day 0
\* expires on day 365 and one issued on day 2 on day 367.
Days == {2, 366, 368}

\* Tokens and accounts over time, from a store with one quiz and two
\* registered users who never logged in; bob has a result for the quiz.
InitTokens ==
    /\ quiz = {[id |-> 1, category |-> "veg", created_at |-> 0]}
    /\ questions = {}
    /\ quiz_seq = 2
    /\ question_seq = 1
    /\ now = 0
    /\ pc = [p \in Procs |-> "idle"]
    /\ req = [p \in Procs |-> NoReq]
    /\ loc = [p \in Procs |-> NoLoc]
    /\ resp = [p \in Procs |-> NoResp]
    /\ submitted = (1 :> <<>>)
    /\ deleted = {}
    /\ users = { [id |-> 1, email |-> "a@x", username |-> "ann", created_at |-> 0,
                  last_login |-> NoLogin],
                 [id |-> 2, email |-> "b@x", username |-> "bob", created_at |-> 0,
                  last_login |-> NoLogin] }
    /\ quiz_results = { [id |-> 1, user_id |-> 2, quiz_id |-> 1, score |-> 50,
                         correct_answers |-> 1, total_questions |-> 2, created_at |-> 0] }
    /\ user_seq = 3
    /\ result_seq = 2
    /\ wallet = {}

\* Issuance and verification of tokens over time: the registration of a new
\* account, logins with its email, and GET /users/me with the kept tokens.
NextExpiry ==
    \/ \E p \in Procs :
        \/ MayRegister(MaxUserId + 2, "c@x", "cat") /\ create_user(p, "c@x", "cat")
        \/ cu_insert(p)
        \/ login_for_access_token(p, "c@x")
        \/ lg_update(p)
        \/ \E t \in wallet : read_users_me(p, t)
        \/ Return(p)
    \/ \E day \in Days : Tick(day)

SpecExpiry == InitTokens /\ [][NextExpiry]_vars

\* The life of ann's account and of the tokens issued for a@x, the requests
\* served one after the other by one worker: login, the gated operations,
\* the deletion of the account and the registration of a@x again.
NextTokens ==
    \/ \E p \in {"w1"} :
        \/ MayRegister(MaxUserId + 2, "a@x", "ann") /\ create_user(p, "a@x", "ann")
        \/ cu_insert(p)
        \/ login_for_access_token(p, "a@x")
        \/ lg_update(p)
        \/ \E t \in TokenInputs : read_users_me(p, t)
        \/ \E t \in TokenInputs : delete_user(p, t)
        \/ du_delete_results(p)
        \/ du_delete_user(p)
        \/ \E t \in TokenInputs, r \in ResultInputs : save_quiz_result(p, t, 1, r)
        \/ sr_select_quiz(p)
        \/ sr_select_existing(p)
        \/ sr_insert(p)
        \/ \E t \in TokenInputs : get_user_quiz_results(p, t)
        \/ gr_select(p)
        \/ Return(p)
    \/ \E day \in Days : Tick(day)

SpecTokens == InitTokens /\ [][NextTokens]_vars

\* The deletion of ann's account against her own concurrent requests.
NextDeletion ==
    \E p \in Procs :
        \/ login_for_access_token(p, "a@x")
        \/ lg_update(p)
        \/ \E t \in wallet : delete_user(p, t)
        \/ du_delete_results(p)
        \/ du_delete_user(p)
        \/ \E t \in wallet, r \in ResultInputs : save_quiz_result(p, t, 1, r)
        \/ sr_select_quiz(p)
        \/ sr_select_existing(p)
        \/ sr_insert(p)
        \/ Return(p)

SpecDeletion == InitTokens /\ [][NextDeletion]_vars

\* -------------------------------------------------------------- claims
Done(p, op) == pc[p] = "done" /\ req[p].op = op

QuestionsOf(quiz_id) == {r \in questions : r.quiz_id = quiz_id}

\* C1: quiz creation is atomic. A POST /quizzes in which an insert (or the
\* commit) failed answers 500 and leaves no quiz row and no question row of
\* its quiz id in the store; one in which nothing failed answers 200 with the
\* quiz row and all N question rows committed (until a DELETE removes them).
C1_CreateAtomic ==
    \A p \in Procs : Done(p, "create_quiz") =>
        /\ resp[p].status = IF loc[p].failed THEN 500 ELSE 200
        /\ resp[p].status = 500 =>
              /\ \A r \in quiz : r.id # loc[p].qid
              /\ QuestionsOf(loc[p].qid) = {}
        /\ (resp[p].status = 200 /\ loc[p].qid \notin deleted) =>
              /\ \E r \in quiz : r.id = loc[p].qid
              /\ Cardinality(QuestionsOf(loc[p].qid)) = Len(req[p].questions)

\* A creation of two or more questions whose last question insert failed.
C1_Witness ==
    \E p \in Procs :
        /\ Done(p, "create_quiz") /\ resp[p].status = 500
        /\ Len(req[p].questions) >= 2
        /\ Len(loc[p].questions) = Len(req[p].questions) - 1

\* The quiz ids a reader has seen so far.
ObservedIds(r) ==
    {loc[r].quiz.id, resp[r].quiz.id}
    \cup {loc[r].todo[i].id : i \in 1..Len(loc[r].todo)}
    \cup {loc[r].quizzes[i].quiz.id : i \in 1..Len(loc[r].quizzes)}
    \cup {resp[r].quizzes[i].quiz.id : i \in 1..Len(resp[r].quizzes)}

Readers == {r \in Procs : req[r].op \in {"get_quiz", "get_all_quizzes", "get_random_by_category"}}

Complete(entry) ==
    \/ Len(entry.questions) = Len(submitted[entry.quiz.id])
    \/ entry.quiz.id \in deleted

\* C2: a reader never sees a quiz whose creation is in progress, and a quiz
\* it does see comes with all the questions its creation submitted (unless
\* the quiz has been deleted in between).
C2_NoPartialQuiz ==
    /\ \A c \in Procs, r \in Readers :
          pc[c] \in {"cq_insert_question", "cq_commit"} => loc[c].qid \notin ObservedIds(r)
    /\ \A r \in Readers :
          /\ (Done(r, "get_quiz") /\ resp[r].status = 200) =>
                Complete([quiz |-> resp[r].quiz, questions |-> resp[r].questions])
          /\ \A i \in 1..Len(loc[r].quizzes) : Complete(loc[r].quizzes[i])
          /\ \A i \in 1..Len(resp[r].quizzes) : Complete(resp[r].quizzes[i])

\* A GET /quizzes/{id} answered while the creation of that id had inserted a
\* question and not committed.
C2_Witness ==
    \E c, r \in Procs :
        /\ pc[c] \in {"cq_insert_question", "cq_commit"} /\ Len(loc[c].questions) >= 1
        /\ Done(r, "get_quiz") /\ req[r].quiz_id = loc[c].qid
        /\ loc[r].inflight /\ resp[r].status = 404

\* C3: GET /quizzes/{id} of a created, undeleted quiz returns the submitted
\* questions: as many, in the submitted order, each with the submitted
\* correct_answer_index.
C3_QuestionsInSubmittedOrder ==
    \A r \in Procs :
        (Done(r, "get_quiz") /\ resp[r].status = 200 /\ req[r].quiz_id \notin deleted) =>
            LET sub == submitted[req[r].quiz_id]
                got == resp[r].questions
            IN  /\ Len(got) = Len(sub)
                /\ \A i \in 1..Len(sub) :
                      /\ got[i].question_text = sub[i].question_text
                      /\ got[i].correct_answer_index = sub[i].correct_answer_index

\* C4: once DELETE /quizzes/{id} has succeeded, neither the quiz row nor any
\* question row of that id is in the store and a GET /quizzes/{id} begun
\* afterwards answers 404; a DELETE answers 200 only if it removed a quiz
\* row, and 404 otherwise.
C4_DeleteCascades ==
    /\ \A i \in deleted : QuestionsOf(i) = {} /\ \A r \in quiz : r.id # i
    /\ \A p \in Procs :
          /\ (Done(p, "get_quiz") /\ loc[p].after_delete) => resp[p].status = 404
          /\ Done(p, "delete_quiz") =>
                /\ resp[p].status \in {200, 404}
                /\ resp[p].status = 200 <=> loc[p].matched

\* A GET answered 404 for a quiz that had questions and was deleted.
C4_Witness ==
    \E p \in Procs :
        /\ Done(p, "get_quiz") /\ loc[p].after_delete /\ resp[p].status = 404
        /\ submitted[req[p].quiz_id] # <<>>

\* C5: no two user rows share an email and no two share a username.
C5_UniqueUsers ==
    \A u, v \in users : u.id # v.id => (u.email # v.email /\ u.username # v.username)

\* C6: the store holds at most one result row per (user_id, quiz_id).
C6_OneResultPerUserQuiz ==
    \A r, t \in quiz_results :
        (r.user_id = t.user_id /\ r.quiz_id = t.quiz_id) => r.id = t.id

\* C7: a POST /users whose existence check runs when a user row has its email
\* or a user row has its username answers 400 and writes nothing.
C7_ConflictOnDuplicate ==
    \A p \in Procs :
        (req[p].op = "create_user" /\ pc[p] # "idle"
           /\ (loc[p].email_taken \/ loc[p].username_taken)) =>
            /\ pc[p] = "done"
            /\ resp[p].status = 400
            /\ ~loc[p].wrote

\* One registration refused for its email alone and one for its username alone.
C7_Witness ==
    \E p, q \in Procs :
        /\ Done(p, "create_user") /\ resp[p].status = 400
        /\ loc[p].email_taken /\ ~loc[p].username_taken
        /\ Done(q, "create_user") /\ resp[q].status = 400
        /\ loc[q].username_taken /\ ~loc[q].email_taken

\* C8 as stated: a POST /quiz-results of a user who has a result for the quiz
\* when the request is authenticated answers 400 and writes nothing.
C8_ConflictOnSecondResult ==
    \A p \in Procs :
        (Done(p, "save_quiz_result") /\ loc[p].had_at_auth) =>
            (resp[p].status = 400 /\ ~loc[p].wrote)

\* C8 amended: such a request never writes; it answers 404 when the quiz row
\* is gone at the quiz lookup, and 400 when the quiz is found and the
\* duplicate check finds the result.
C8_ConflictOrNotFound ==
    \A p \in Procs :
        (req[p].op = "save_quiz_result" /\ loc[p].user # NoUser) =>
            /\ loc[p].had_at_auth => (~loc[p].wrote /\ resp[p].status # 200)
            /\ (loc[p].quiz_found /\ loc[p].had_result) =>
                  (pc[p] = "done" /\ resp[p].status = 400 /\ ~loc[p].wrote)
            /\ (pc[p] \in {"sr_select_existing", "sr_insert", "done"} /\ ~loc[p].quiz_found) =>
                  (pc[p] = "done" /\ resp[p].status = 404 /\ ~loc[p].wrote)

\* A second result refused with 400 while the quiz exists, and one refused
\* with 404 after the quiz was deleted; the first result is still stored.
C8_Witness ==
    \E p, q \in Procs :
        /\ Done(p, "save_quiz_result") /\ loc[p].had_at_auth /\ resp[p].status = 400
        /\ Done(q, "save_quiz_result") /\ loc[q].had_at_auth /\ resp[q].status = 404
        /\ \E r \in quiz_results : r.user_id = loc[p].user.id /\ r.quiz_id = req[p].quiz_id

GatedOps == {"read_users_me", "delete_user", "save_quiz_result", "get_user_quiz_results"}

\* The token is no JWT, is signed with another key, has expired on day t or
\* carries no subject.
BadToken(token, t) ==
    \/ token.kind # "jwt"
    \/ token.sig # SECRET_KEY
    \/ token.exp < t
    \/ token.sub = NoSub

\* C9: an identity-gated request whose token is malformed, wrongly signed,
\* expired or without subject, or whose subject has no user row when it is
\* verified, ends at once with 401 and without a store write: a request that
\* is in (or past) its handler body carries a token that passed verification
\* and a current_user with the token's subject as email.
C9_UnauthorizedWritesNothing ==
    \A p \in Procs :
        (req[p].op \in GatedOps /\ pc[p] # "idle") =>
            IF BadToken(req[p].token, loc[p].at) \/ ~loc[p].known
            THEN /\ pc[p] = "done"
                 /\ resp[p].status = 401
                 /\ ~loc[p].wrote
                 /\ loc[p].user = NoUser
            ELSE /\ resp[p].status # 401
                 /\ loc[p].user.email = req[p].token.sub

\* A DELETE /users/me refused for an expired token and a POST /quiz-results
\* refused for a valid token whose subject has no user row any more.
C9_Witness ==
    \E p, q \in Procs :
        /\ Done(p, "delete_user") /\ resp[p].status = 401
        /\ req[p].token.kind = "jwt" /\ req[p].token.sig = SECRET_KEY
        /\ req[p].token.exp < loc[p].at
        /\ Done(q, "save_quiz_result") /\ resp[q].status = 401
        /\ ~BadToken(req[q].token, loc[q].at) /\ ~loc[q].known

\* C10: POST /token for an email without user row answers 401 and writes
\* nothing; for an email with a user row it answers 200 with a token whose
\* subject is the email and which expires ACCESS_TOKEN_EXPIRE_DAYS later,
\* after setting the last_login of that user row to the current day.
C10_Login ==
    \A p \in Procs :
        (req[p].op = "login" /\ pc[p] # "idle") =>
            IF ~loc[p].known
            THEN pc[p] = "done" /\ resp[p].status = 401 /\ ~loc[p].wrote
            ELSE /\ pc[p] \in {"lg_update", "done"}
                 /\ pc[p] = "done" =>
                      /\ resp[p].status = 200
                      /\ resp[p].token =
                           [kind |-> "jwt", sub |-> req[p].email,
                            exp |-> loc[p].at + ACCESS_TOKEN_EXPIRE_DAYS, sig |-> SECRET_KEY]
                      /\ \A u \in users : u.id = loc[p].user.id =>
                             (u.last_login # NoLogin /\ u.last_login >= loc[p].at)

\* A login answered 200 whose user row carries the day of the login, and a
\* login answered 401.
C10_Witness ==
    \E p, q \in Procs :
        /\ Done(p, "login") /\ resp[p].status = 200
        /\ \E u \in users : u.id = loc[p].user.id /\ u.last_login = loc[p].at
        /\ Done(q, "login") /\ resp[q].status = 401

\* The categories of the entries of a quiz list response.
ListedCategories(list) == {list[i].quiz.category : i \in 1..Len(list)}

\* C12 as stated: GET /quizzes/random-by-category answers 200 with a list in
\* which every entry is a stored quiz under its own category, every category
\* that has a quiz appears, and no category carries more than 3 quizzes.
C12_RandomByCategory ==
    \A p \in Procs : Done(p, "get_random_by_category") =>
        /\ resp[p].status = 200
        /\ \A r \in quiz : r.category \in ListedCategories(resp[p].quizzes)
        /\ \A c \in ListedCategories(resp[p].quizzes) :
              Cardinality({i \in 1..Len(resp[p].quizzes) :
                              resp[p].quizzes[i].quiz.category = c}) <= 3

\* C14 as stated: after an operation that issued a token for a user (a
\* registration answered 200 or a login answered 200) the user's row, while it
\* exists, carries a last_login no earlier than that issuance.
C14_LastLoginOnIssuance ==
    \A p \in Procs :
        ((Done(p, "create_user") \/ Done(p, "login")) /\ resp[p].status = 200) =>
            \A u \in users : u.id = loc[p].user.id =>
                (u.last_login # NoLogin /\ u.last_login >= loc[p].at)

\* C11: a token issued by a registration or a login on day T expires on day
\* T + 365, and a GET /users/me with an issued token whose subject has a user
\* row is answered 200 up to day T + 364 and 401 from day T + 366 on.
C11_TokenExpiry ==
    \A p \in Procs :
        /\ ((Done(p, "create_user") \/ Done(p, "login")) /\ resp[p].status = 200) =>
              /\ loc[p].token.kind = "jwt"
              /\ loc[p].token.exp = loc[p].at + 365
        /\ (Done(p, "login") /\ resp[p].status = 200) => resp[p].token = loc[p].token
        /\ (Done(p, "read_users_me") /\ req[p].token \in wallet /\ loc[p].known) =>
              LET T == req[p].token.exp - 365
              IN  /\ loc[p].at <= T + 364 => resp[p].status = 200
                  /\ loc[p].at >= T + 366 => resp[p].status = 401

\* One token, issued after day 0, accepted on the 364th day after its
\* issuance and refused on the 366th, its user still registered.
C11_Witness ==
    \E p, q \in Procs :
        /\ Done(p, "read_users_me") /\ Done(q, "read_users_me")
        /\ req[p].token = req[q].token /\ req[p].token \in wallet
        /\ req[p].token.exp > 365
        /\ loc[p].at = req[p].token.exp - 365 + 364 /\ resp[p].status = 200
        /\ loc[q].at = req[q].token.exp - 365 + 366 /\ resp[q].status = 401
        /\ loc[q].known

\* C13: DELETE /users/me publishes nothing before its commit, and the step
\* that answers 200 for user U removes exactly U's user row and U's result
\* rows from the store and leaves the other users, their results, the quizzes
\* and the questions as they were; while a deletion answered 200 is on
\* display no user row and no result row of U is stored.
C13_DeleteUserAndResults ==
    [][\A p \in Procs :
          LET U == loc[p].user.id
          IN  /\ (pc[p] = "du_delete_results" /\ pc'[p] = "du_delete_user") =>
                    (users' = users /\ quiz_results' = quiz_results)
              /\ (pc[p] = "du_delete_user" /\ pc'[p] = "done" /\ resp'[p].status = 200) =>
                    /\ users' = {u \in users : u.id # U}
                    /\ quiz_results' = {r \in quiz_results : r.user_id # U}
                    /\ quiz' = quiz
                    /\ questions' = questions
              /\ (pc'[p] = "done" /\ req'[p].op = "delete_user" /\ resp'[p].status = 200) =>
                    /\ \A u \in users' : u.id # loc'[p].user.id
                    /\ \A r \in quiz_results' : r.user_id # loc'[p].user.id
    ]_vars

\* ann, who had recorded a result, has deleted her account: her row and her
\* result are gone, bob and his result are still stored.
C13_Witness ==
    \E p \in Procs :
        /\ Done(p, "delete_user") /\ resp[p].status = 200
        /\ loc[p].delres # {}
        /\ \A u \in users : u.id # loc[p].user.id
        /\ \A r \in quiz_results : r.user_id # loc[p].user.id
        /\ \E u \in users : u.id # loc[p].user.id /\ \E r \in quiz_results : r.user_id = u.id

\* C14 amended: a login answered 200 leaves the user's row, while it exists,
\* with the day of that login (or of a later one) as last_login; a
\* registration answered 200 returns and stores the user without last_login,
\* and the row has none unless a later login has set it.
C14_LastLoginOnLogin ==
    \A p \in Procs :
        /\ (Done(p, "login") /\ resp[p].status = 200) =>
              \A u \in users : u.id = loc[p].user.id =>
                  (u.last_login # NoLogin /\ u.last_login >= loc[p].at /\ u.last_login <= now)
        /\ (Done(p, "create_user") /\ resp[p].status = 200) =>
              /\ resp[p].user.last_login = NoLogin
              /\ loc[p].token.sub = resp[p].user.email
              /\ \A u \in users : u.id = loc[p].user.id =>
                    (u.last_login = NoLogin \/ u.last_login >= loc[p].at)

\* A login after day 0 whose user row carries the day of the login, next to a
\* registration whose user row has no last_login.
C14_Witness ==
    \E p, q \in Procs :
        /\ Done(p, "login") /\ resp[p].status = 200 /\ loc[p].at > 0
        /\ \E u \in users : u.id = loc[p].user.id /\ u.last_login = loc[p].at
        /\ Done(q, "create_user") /\ resp[q].status = 200
        /\ \E u \in users : u.id = loc[q].user.id /\ u.last_login = NoLogin

\* C15: whether an identity-gated request is let in depends on its token's
\* signature, subject and expiry and on the user rows that carry the subject
\* as email when the token is verified, and on nothing else: without such a
\* row (or with a bad token) the request ends with 401, with one the request
\* goes on as that row's user, whichever account the token was issued for.
C15_AcceptanceBySubjectEmail ==
    [][\A p \in Procs :
          (pc[p] = "idle" /\ req'[p].op \in GatedOps) =>
              LET token == req'[p].token
                  rows == {u \in users : u.email = token.sub}
              IN  IF BadToken(token, now) \/ rows = {}
                  THEN pc'[p] = "done" /\ resp'[p].status = 401 /\ loc'[p].user = NoUser
                  ELSE resp'[p].status # 401 /\ loc'[p].user \in rows
    ]_vars

\* With a token issued before the account was registered, the holder has
\* deleted the account registered anew with the token's email, together with
\* a result recorded on it.
C15_Witness ==
    \E p \in Procs :
        /\ Done(p, "delete_user") /\ resp[p].status = 200
        /\ req[p].token \in wallet
        /\ loc[p].user.id > 2
        /\ loc[p].user.created_at > req[p].token.exp - ACCESS_TOKEN_EXPIRE_DAYS
        /\ loc[p].delres # {}

====
